---- MODULE Spec2Model ----
(***************************************************************************)
(* The relay compiler orchestrator (relay-compiler/src/compiler.rs):       *)
(* Compiler::compile, Compiler::watch, Compiler::watch_with_callback,      *)
(* Compiler::check_projects, Compiler::build_projects and the free         *)
(* function build_projects (analysis phase, concurrent commit tasks).      *)
(*                                                                         *)
(* One behaviour is one run of one entry point (mode) under one config     *)
(* (only_project).  A source-set's content is a number; content 0 stands   *)
(* for a text that GraphQLAsts::from_graphql_sources cannot parse.         *)
(***************************************************************************)
EXTENDS Integers, Sequences, FiniteSets, TLC

\* ---------------------------------------------------------------- bounds
\* Source-set contents range over 0..MaxContent (0: does not parse).
MaxContent == 2

\* ---------------------------------------------------------------- registry
\* config.projects: the project registry (keys = ProjectConfig.name).
Projects == {"P1", "P2"}

SourceSets == {"a", "b"}

\* ProjectConfig: the source-set feeding each project.
SourceSetOf(p) == IF p = "P1" THEN "a" ELSE "b"

\* config.only_project : Option<ProjectName>; "PX" is a name absent from the registry.
None == "None"

OnlyProjectValues == {None} \cup Projects \cup {"PX"}

Modes == {"compile", "watch", "watch_with_callback"}

BuildModes == {"compile", "watch"}

WatchModes == {"watch", "watch_with_callback"}

Contents == 0..MaxContent

\* A change batch: new contents for some source-sets (possibly none).
ChangeBatches == UNION {[D -> Contents] : D \in SUBSET SourceSets}

NoChanges == [s \in {} |-> 0]

\* ---------------------------------------------------------------- results
NoResult == [kind |-> "none", errors |-> <<>>, artifacts |-> {}]

SeqToSet(s) == {s[i] : i \in 1..Len(s)}

VARIABLES
    mode,               \* the entry point that runs
    only_project,       \* config.only_project
    pc,                 \* position of the orchestrator
    ret,                \* what the entry point returned ("none" while running)
    graphql_sources,    \* compiler_state.graphql_sources: source-set -> content
    pending,            \* compiler_state: project -> has pending changes
    artifacts,          \* compiler_state.artifacts: projects with a manifest entry
    file_source_changes,\* the batch last yielded by subscription.next_change()
    lastChange,         \* outcome of the last next_change(): "none","Some","None","Err"
    had_new_changes,    \* result of the last merge_file_source_changes
    todo,               \* projects of the work set not yet analysed / checked
    results,            \* build_projects: results (Ok build results, by project)
    errors,             \* build_projects / check_projects: errors vector
    handles,            \* commit task per project: "none","spawned","failed","locked","finished"
    errors_mutex,       \* holder of the errors mutex (None when free)
    result,             \* the value the cycle returned
    \* ---- history of the current window (since start or since the last batch consumed)
    built,              \* projects passed to build_project
    checked,            \* projects passed to check_project
    committed,          \* projects passed to commit_project
    failedAnalysis,     \* projects whose build_project returned Err
    failedCommit,       \* projects whose commit_project returned Err
    cb,                 \* callback invocations (the kinds of their arguments)
    completed,          \* complete_compilation was called
    cycles,             \* number of cycles started in this window (0 or 1)
    startPending,       \* pending at the start of the cycle
    startArtifacts,     \* artifacts at the start of the cycle
    preMergePending,    \* pending just before the last merge
    \* ---- history carried from one window to the next
    staleErrors,        \* projects whose latest check_project returned Err
    manifestsSeen,      \* manifests returned by the cycles that committed every project
    prevCommitted       \* commits that succeeded in the last cycle run, if one of its commits failed

vars == <<mode, only_project, pc, ret, graphql_sources, pending, artifacts,
          file_source_changes, lastChange, had_new_changes, todo, results, errors,
          handles, errors_mutex, result, built, checked, committed, failedAnalysis,
          failedCommit, cb, completed, cycles, startPending, startArtifacts,
          preMergePending, staleErrors, manifestsSeen, prevCommitted>>

carried == <<staleErrors, manifestsSeen, prevCommitted>>

config == <<mode, only_project>>

state == <<graphql_sources, pending, artifacts>>

locals == <<todo, results, errors, handles, errors_mutex>>

history == <<built, checked, committed, failedAnalysis, failedCommit, cb, completed,
             cycles, startPending, startArtifacts, preMergePending>>

subscription == <<file_source_changes, lastChange, had_new_changes>>

\* ---------------------------------------------------------------- CompilerState
\* The initial CompilerState of FileSource::query / subscribe: a full snapshot,
\* every project has pending changes.
InitialPending == [p \in Projects |-> TRUE]

\* The artifact manifest the initial state carries (the last successful build's).
InitialArtifacts == SUBSET Projects

\* compiler_state.project_has_pending_changes(name)
project_has_pending_changes(pend, name) == pend[name]

\* The source-sets of a batch whose content differs from the snapshot.
ChangedSets(sources, changes) == {s \in DOMAIN changes : changes[s] # sources[s]}

\* merge_file_source_changes: the snapshot after the merge
MergedSources(sources, changes) ==
    [s \in SourceSets |-> IF s \in DOMAIN changes THEN changes[s] ELSE sources[s]]

\* merge_file_source_changes: the flags after the merge (flags are only set)
MergedPending(pend, sources, changes) ==
    [p \in Projects |-> pend[p] \/ SourceSetOf(p) \in ChangedSets(sources, changes)]

\* merge_file_source_changes: its Ok value, whether any project became dirty
MergeHadNewChanges(sources, changes) ==
    \E p \in Projects : SourceSetOf(p) \in ChangedSets(sources, changes)

\* GraphQLAsts::from_graphql_sources(_map): Ok iff every source-set parses
ParseOk(sources) == \A s \in SourceSets : sources[s] # 0


\* ---------------------------------------------------------------- decisions
\* config.projects.get(&only_project): Some iff the key is in the registry
ProjectExists(key) == key \in Projects

\* Mutant of WorkSet: the override is ignored, the flags decide.
WorkSet_IgnoresOverride(only, pend) ==
    {p \in Projects : project_has_pending_changes(pend, p)}

\* Mutant of WorkSet: the flags are ignored, every project is in the work set.
WorkSet_IgnoresFlags(only, pend) == IF only # None THEN {only} ELSE Projects

\* Mutant of WorkSet: the filter on the flags is inverted.
WorkSet_Inverted(only, pend) ==
    IF only # None
    THEN {only}
    ELSE {p \in Projects : ~project_has_pending_changes(pend, p)}

\* Mutant of WorkSet: the override's project is built only if its flag is set.
WorkSet_OverrideNeedsFlag(only, pend) ==
    IF only # None
    THEN {p \in {only} : project_has_pending_changes(pend, p)}
    ELSE {p \in Projects : project_has_pending_changes(pend, p)}

\* The work set: the override's project, or every project with pending changes.
WorkSet(only, pend) ==
    IF only # None
    THEN {only}
    ELSE {p \in Projects : project_has_pending_changes(pend, p)}

\* Mutant of CommitPhaseRuns: the commit phase runs whatever the analysis gave.
CommitPhaseRuns_Always(errs) == TRUE

\* build_projects: the commit phase runs iff the analysis produced no error
CommitPhaseRuns(errs) == errs = <<>>

\* Mutant of NextArtifacts: the manifest keeps the entry of the last result only.
NextArtifacts_LastResult(committedOk) ==
    IF results = <<>> THEN {} ELSE {results[Len(results)]}

\* build_projects: next_artifacts is Default::default(), the empty ArtifactMap
NextArtifacts(committedOk) == {}

\* Mutant of BuildResult: the collected errors are dropped.
BuildResult_DropsErrors(errs, committedOk) ==
    [kind |-> "Ok", errors |-> <<>>, artifacts |-> NextArtifacts(committedOk)]

\* build_projects: Ok(next_artifacts) iff no error, else BuildProjectsErrors
BuildResult(errs, committedOk) ==
    IF errs = <<>>
    THEN [kind |-> "Ok", errors |-> <<>>, artifacts |-> NextArtifacts(committedOk)]
    ELSE [kind |-> "BuildProjectsErrors", errors |-> errs, artifacts |-> {}]

\* Mutant of CheckResult: only the first error is kept.
CheckResult_FirstOnly(errs) ==
    IF errs = <<>>
    THEN [kind |-> "Ok", errors |-> <<>>, artifacts |-> {}]
    ELSE [kind |-> "BuildProjectsErrors", errors |-> <<errs[1]>>, artifacts |-> {}]

\* check_projects: Ok(()) iff no error, else BuildProjectsErrors
CheckResult(errs) ==
    IF errs = <<>>
    THEN [kind |-> "Ok", errors |-> <<>>, artifacts |-> {}]
    ELSE [kind |-> "BuildProjectsErrors", errors |-> errs, artifacts |-> {}]

\* The `?` on the parse of the sources: the cycle returns that error
ParseErrorResult == [kind |-> "ParseError", errors |-> <<>>, artifacts |-> {}]

\* The value of callback(Ok(()))
OkResult == [kind |-> "Ok", errors |-> <<>>, artifacts |-> {}]

\* Mutant of CompletesOn: complete_compilation runs on every result.
CompletesOn_Always(res) == TRUE

\* Compiler::build_projects: complete_compilation runs iff the result is Ok
CompletesOn(res) == res.kind = "Ok"

\* compiler_state.complete_compilation: every pending flag is cleared
CompletedPending == [p \in Projects |-> FALSE]

\* Mutant of AfterCycle: the watch loops propagate the cycle's result with `?`.
AfterCycle_Propagates(m) == "done"

\* Where the entry point goes once a cycle has returned: compile returns
\* (`?` or Ok), the watch loops log or report the result and go on.
AfterCycle(m) == IF m = "compile" THEN "done" ELSE "idle"

\* compile's return value for a cycle result
CompileReturn(res) == res.kind

\* Mutant of RunsCycle: a cycle runs after every merge.
RunsCycle_Always(had) == TRUE

\* The watch loops run a cycle iff the merge had new changes
RunsCycle(had) == had

\* Mutant of ClearedCallbacks: no "errors cleared" callback before the check.
ClearedCallbacks_None(m, log) == log

\* watch_with_callback before a re-check: callback(Ok(())); watch has no callback
ClearedCallbacks(m, log) ==
    IF m = "watch_with_callback" THEN Append(log, OkResult) ELSE log

\* Mutant of AfterMergeError: the error of the merge is swallowed.
AfterMergeError_Swallowed == "idle"

\* merge_file_source_changes(..)? on Err: the watch function returns it
AfterMergeError == "done"

\* Mutant of AllJoined: the result is taken without waiting for the tasks.
AllJoined_NoWait(h) == TRUE

\* join_all(handles).await: every spawned commit task has ended
AllJoined(h) == \A p \in Projects : h[p] \in {"none", "finished"}

\* Mutant of MutexFree: lock() succeeds while another task holds the mutex.
MutexFree_Always(m) == TRUE

\* errors_mutex.lock() returns when no task holds the mutex
MutexFree(m) == m = None

\* The loop after next_change(): Err leaves through `?`, Some is merged,
\* None fails the `if let` and the loop calls next_change() again.
AfterNextChange(outcome) ==
    CASE outcome = "Err" -> "done"
      [] outcome = "Some" -> "merge"
      [] OTHER -> "idle"

\* ---------------------------------------------------------------- Init
Init ==
    /\ mode \in Modes
    /\ only_project \in OnlyProjectValues
    /\ pc = "setup"
    /\ ret = "none"
    /\ graphql_sources \in [SourceSets -> Contents]
    /\ pending = InitialPending
    /\ artifacts \in InitialArtifacts
    /\ file_source_changes = NoChanges
    /\ lastChange = "none"
    /\ had_new_changes = FALSE
    /\ todo = {}
    /\ results = <<>>
    /\ errors = <<>>
    /\ handles = [p \in Projects |-> "none"]
    /\ errors_mutex = None
    /\ result = NoResult
    /\ built = {}
    /\ checked = {}
    /\ committed = {}
    /\ failedAnalysis = {}
    /\ failedCommit = {}
    /\ cb = <<>>
    /\ completed = FALSE
    /\ cycles = 0
    /\ startPending = pending
    /\ startArtifacts = artifacts
    /\ preMergePending = pending
    /\ staleErrors = {}
    /\ manifestsSeen = {}
    /\ prevCommitted = {}

\* ---------------------------------------------------------------- setup
\* FileSource::connect(..).await? and query / subscribe(..).await?; in
\* watch_with_callback build_schemas follows. Then the eager first cycle.
Setup ==
    /\ pc = "setup"
    /\ \E ok \in BOOLEAN :
         IF ok
         THEN pc' = "cycle" /\ ret' = ret
         ELSE pc' = "done" /\ ret' = "SetupError"
    /\ UNCHANGED <<config, carried, state, subscription, locals, result, history>>

\* ---------------------------------------------------------------- a cycle
\* The head of a cycle, shared by build_projects and check_projects: parse
\* the sources (`?`), then look the override up (panic) or filter by flags.
BeginCycle ==
    /\ pc = "cycle"
    /\ cycles' = cycles + 1
    /\ startPending' = pending
    /\ startArtifacts' = artifacts
    /\ IF ~ParseOk(graphql_sources)
       THEN /\ result' = ParseErrorResult
            /\ pc' = "returned"
            /\ todo' = {}
       ELSE IF only_project # None /\ ~ProjectExists(only_project)
       THEN /\ pc' = "panicked"
            /\ UNCHANGED <<result, todo>>
       ELSE /\ todo' = WorkSet(only_project, pending)
            /\ pc' = "analysis"
            /\ result' = result
    /\ UNCHANGED <<config, carried, ret, state, subscription, results, errors, handles,
                   errors_mutex, built, checked, committed, failedAnalysis,
                   failedCommit, cb, completed, preMergePending>>

\* build_projects in compile and watch
BeginBuild == mode \in BuildModes /\ BeginCycle

\* check_projects in watch_with_callback
BeginCheck == mode = "watch_with_callback" /\ BeginCycle

\* build_project(project_config, ..) of one project of the work set; the
\* parallel iterator gives no order. Ok goes to results, Err to errors.
BuildProject(p) ==
    /\ pc = "analysis"
    /\ mode \in BuildModes
    /\ p \in todo
    /\ todo' = todo \ {p}
    /\ built' = built \cup {p}
    /\ \E ok \in BOOLEAN :
         IF ok
         THEN /\ results' = Append(results, p)
              /\ UNCHANGED <<errors, failedAnalysis>>
         ELSE /\ errors' = Append(errors, p)
              /\ failedAnalysis' = failedAnalysis \cup {p}
              /\ results' = results
    /\ UNCHANGED <<config, carried, pc, ret, state, subscription, handles, errors_mutex,
                   result, checked, committed, failedCommit, cb, completed, cycles,
                   startPending, startArtifacts, preMergePending>>

\* check_project(project_config, ..) of one project; an Err is pushed
CheckProject(p) ==
    /\ pc = "analysis"
    /\ mode = "watch_with_callback"
    /\ p \in todo
    /\ todo' = todo \ {p}
    /\ checked' = checked \cup {p}
    /\ \E ok \in BOOLEAN :
         IF ok
         THEN /\ staleErrors' = staleErrors \ {p}
              /\ UNCHANGED <<errors, failedAnalysis>>
         ELSE /\ errors' = Append(errors, p)
              /\ failedAnalysis' = failedAnalysis \cup {p}
              /\ staleErrors' = staleErrors \cup {p}
    /\ UNCHANGED <<config, manifestsSeen, prevCommitted, pc, ret, state, subscription, results, handles,
                   errors_mutex, result, built, committed, failedCommit, cb,
                   completed, cycles, startPending, startArtifacts, preMergePending>>

\* check_projects returns: Ok(()) or BuildProjectsErrors
EndCheck ==
    /\ pc = "analysis"
    /\ mode = "watch_with_callback"
    /\ todo = {}
    /\ result' = CheckResult(errors)
    /\ pc' = "returned"
    /\ UNCHANGED <<config, carried, ret, state, subscription, locals, history>>

\* build_projects after the analysis: with no error one commit task is
\* spawned per result; with errors the commit phase is skipped.
EndAnalysis ==
    /\ pc = "analysis"
    /\ mode \in BuildModes
    /\ todo = {}
    /\ IF CommitPhaseRuns(errors)
       THEN /\ handles' = [p \in Projects |->
                             IF p \in SeqToSet(results) THEN "spawned" ELSE "none"]
            /\ pc' = "commit"
            /\ result' = result
       ELSE /\ result' = BuildResult(errors, {})
            /\ pc' = "returned"
            /\ handles' = handles
    /\ UNCHANGED <<config, carried, ret, state, subscription, todo, results, errors,
                   errors_mutex, history>>

\* A commit task: the registry lookup of the result's project (it exists)
\* and commit_project(..).await.
CommitProject(p) ==
    /\ pc = "commit"
    /\ handles[p] = "spawned"
    /\ ProjectExists(p)
    /\ committed' = committed \cup {p}
    /\ \E ok \in BOOLEAN :
         IF ok
         THEN /\ handles' = [handles EXCEPT ![p] = "finished"]
              /\ failedCommit' = failedCommit
         ELSE /\ handles' = [handles EXCEPT ![p] = "failed"]
              /\ failedCommit' = failedCommit \cup {p}
    /\ UNCHANGED <<config, carried, pc, ret, state, subscription, todo, results, errors,
                   errors_mutex, result, built, checked, failedAnalysis, cb,
                   completed, cycles, startPending, startArtifacts, preMergePending>>

\* A failed commit task takes the errors mutex: errors_mutex.lock()
LockErrors(p) ==
    /\ pc = "commit"
    /\ handles[p] = "failed"
    /\ MutexFree(errors_mutex)
    /\ errors_mutex' = p
    /\ handles' = [handles EXCEPT ![p] = "locked"]
    /\ UNCHANGED <<config, carried, pc, ret, state, subscription, todo, results, errors,
                   result, history>>

\* errors.push(error), then the guard is dropped and the task ends
PushError(p) ==
    /\ pc = "commit"
    /\ handles[p] = "locked"
    /\ errors_mutex = p
    /\ errors' = Append(errors, p)
    /\ errors_mutex' = None
    /\ handles' = [handles EXCEPT ![p] = "finished"]
    /\ UNCHANGED <<config, carried, pc, ret, state, subscription, todo, results, result,
                   history>>

\* join_all(handles).await, then the result of build_projects
JoinAll ==
    /\ pc = "commit"
    /\ AllJoined(handles)
    /\ result' = BuildResult(errors, committed \ failedCommit)
    /\ manifestsSeen' = IF result'.kind = "Ok" /\ committed = Projects
                        THEN manifestsSeen \cup {result'.artifacts}
                        ELSE manifestsSeen
    /\ pc' = "returned"
    /\ UNCHANGED <<config, staleErrors, prevCommitted, ret, state, subscription, locals, history>>

\* Compiler::build_projects on the result, then its caller: Ok installs
\* next_artifacts through complete_compilation, Err is printed; compile
\* returns, watch logs the error and goes on.
HandleResult ==
    /\ pc = "returned"
    /\ mode \in BuildModes
    /\ IF CompletesOn(result)
       THEN /\ artifacts' = result.artifacts
            /\ pending' = CompletedPending
            /\ completed' = TRUE
       ELSE UNCHANGED <<artifacts, pending, completed>>
    /\ pc' = AfterCycle(mode)
    /\ ret' = IF AfterCycle(mode) = "done" THEN CompileReturn(result) ELSE ret
    /\ UNCHANGED <<config, carried, graphql_sources, subscription, locals, result, built,
                   checked, committed, failedAnalysis, failedCommit, cb, cycles,
                   startPending, startArtifacts, preMergePending>>

\* watch_with_callback: callback(check_projects(..).await)
DeliverResult ==
    /\ pc = "returned"
    /\ mode = "watch_with_callback"
    /\ cb' = Append(cb, result)
    /\ pc' = AfterCycle(mode)
    /\ UNCHANGED <<config, carried, ret, state, subscription, locals, result, built, checked,
                   committed, failedAnalysis, failedCommit, completed, cycles,
                   startPending, startArtifacts, preMergePending>>

\* ---------------------------------------------------------------- the loop
\* subscription.next_change().await? yields Some(batch): a new window starts
NextChangeSome(batch) ==
    /\ pc = "idle"
    /\ pc' = AfterNextChange("Some")
    /\ lastChange' = "Some"
    /\ file_source_changes' = batch
    /\ had_new_changes' = FALSE
    /\ todo' = {}
    /\ results' = <<>>
    /\ errors' = <<>>
    /\ handles' = [p \in Projects |-> "none"]
    /\ errors_mutex' = None
    /\ result' = NoResult
    /\ built' = {}
    /\ checked' = {}
    /\ committed' = {}
    /\ failedAnalysis' = {}
    /\ failedCommit' = {}
    /\ cb' = <<>>
    /\ completed' = FALSE
    /\ cycles' = 0
    /\ startPending' = pending
    /\ startArtifacts' = artifacts
    /\ preMergePending' = pending
    /\ prevCommitted' = IF cycles = 0 THEN prevCommitted
                        ELSE IF failedCommit # {} THEN committed \ failedCommit
                        ELSE {}
    /\ UNCHANGED <<config, staleErrors, manifestsSeen, ret, state>>

\* next_change() yields Ok(None)
NextChangeNone ==
    /\ pc = "idle"
    /\ pc' = AfterNextChange("None")
    /\ lastChange' = "None"
    /\ ret' = IF AfterNextChange("None") = "done" THEN "Ok" ELSE ret
    /\ UNCHANGED <<config, carried, state, file_source_changes, had_new_changes, locals,
                   result, history>>

\* next_change() yields Err: `?` returns it
NextChangeErr ==
    /\ pc = "idle"
    /\ pc' = AfterNextChange("Err")
    /\ lastChange' = "Err"
    /\ ret' = "SubscriptionError"
    /\ UNCHANGED <<config, carried, state, file_source_changes, had_new_changes, locals,
                   result, history>>

\* compiler_state.merge_file_source_changes(..)? : Err leaves the loop;
\* Ok(true) starts a cycle (after callback(Ok(())) in watch_with_callback);
\* Ok(false) goes back to next_change().
MergeChanges ==
    /\ pc = "merge"
    /\ preMergePending' = pending
    /\ \E ok \in BOOLEAN :
         IF ~ok
         THEN /\ pc' = AfterMergeError
              /\ ret' = "MergeError"
              /\ UNCHANGED <<state, had_new_changes, cb>>
         ELSE /\ graphql_sources' = MergedSources(graphql_sources, file_source_changes)
              /\ pending' = MergedPending(pending, graphql_sources, file_source_changes)
              /\ had_new_changes' = MergeHadNewChanges(graphql_sources, file_source_changes)
              /\ artifacts' = artifacts
              /\ ret' = ret
              /\ IF RunsCycle(had_new_changes')
                 THEN /\ pc' = "cycle"
                      /\ cb' = ClearedCallbacks(mode, cb)
                 ELSE /\ pc' = "idle"
                      /\ cb' = cb
    /\ UNCHANGED <<config, carried, file_source_changes, lastChange, locals, result, built,
                   checked, committed, failedAnalysis, failedCommit, completed, cycles,
                   startPending, startArtifacts>>

Next ==
    \/ Setup
    \/ BeginBuild
    \/ BeginCheck
    \/ \E p \in Projects : BuildProject(p)
    \/ \E p \in Projects : CheckProject(p)
    \/ EndCheck
    \/ EndAnalysis
    \/ \E p \in Projects : CommitProject(p)
    \/ \E p \in Projects : LockErrors(p)
    \/ \E p \in Projects : PushError(p)
    \/ JoinAll
    \/ HandleResult
    \/ DeliverResult
    \/ \E batch \in ChangeBatches : NextChangeSome(batch)
    \/ NextChangeNone
    \/ NextChangeErr
    \/ MergeChanges

Spec == Init /\ [][Next]_vars


\* ---------------------------------------------------------------- claims
\* A cycle of the current window has returned its value.
CycleReturned == result.kind # "none"

\* C1: in a build cycle, once some project's build_project has returned an
\* error, commit_project is invoked for no project (no commit task is even
\* spawned) and the cycle returns the aggregate of exactly the analysis errors.
C1_AnalysisFailureSkipsCommit ==
    (mode \in BuildModes /\ failedAnalysis # {}) =>
        /\ committed = {}
        /\ \A p \in Projects : handles[p] = "none"
        /\ pc # "analysis" =>
             /\ result.kind = "BuildProjectsErrors"
             /\ SeqToSet(result.errors) = failedAnalysis

\* C1 witness: a cycle where one project failed its analysis and the other
\* passed has returned.
C1_Witness ==
    /\ mode \in BuildModes
    /\ pc = "returned"
    /\ Cardinality(failedAnalysis) = 1
    /\ Len(results) = 1

\* C2 as stated: when A's analysis fails and B's succeeds in one build cycle,
\* B is still committed, A's failure is in the aggregate error and A's
\* manifest entry is untouched.
C2_SiblingStillCommitted ==
    \A A, B \in Projects :
        (mode \in BuildModes /\ CycleReturned
           /\ A \in failedAnalysis /\ B \in SeqToSet(results)) =>
            /\ B \in committed
            /\ A \in SeqToSet(result.errors)
            /\ (A \in artifacts) = (A \in startArtifacts)

\* C2 amended: when A's analysis fails and B's succeeds in one build cycle,
\* B is not committed, A's failure is in the aggregate error the cycle
\* returns and A's manifest entry is untouched.
C2_SiblingNotCommitted ==
    \A A, B \in Projects :
        (mode \in BuildModes /\ CycleReturned
           /\ A \in failedAnalysis /\ B \in SeqToSet(results)) =>
            /\ B \notin committed
            /\ result.kind = "BuildProjectsErrors"
            /\ A \in SeqToSet(result.errors)
            /\ (A \in artifacts) = (A \in startArtifacts)

\* C2 witness: P1 failed, P2 passed, P1 had a manifest entry, and the watch
\* loop is past the cycle.
C2_Witness ==
    /\ mode = "watch"
    /\ pc = "idle"
    /\ failedAnalysis = {"P1"}
    /\ results = <<"P2">>
    /\ "P1" \in startArtifacts

\* C3: after a build cycle that failed (in compile and in watch),
\* complete_compilation has not run, every flag set at the start of the cycle
\* is still set, the manifest is the one of the start of the cycle, and
\* compile returns the error.
C3_FailedCycleRecordsNothing ==
    (mode \in BuildModes /\ CycleReturned /\ result.kind # "Ok") =>
        /\ ~completed
        /\ \A p \in Projects : startPending[p] => pending[p]
        /\ artifacts = startArtifacts
        /\ (mode = "compile" /\ pc = "done") => ret = result.kind

\* C3 witness: a watch cycle with a failed commit is over, and there was a
\* manifest to lose.
C3_Witness ==
    /\ mode = "watch"
    /\ pc = "idle"
    /\ result.kind = "BuildProjectsErrors"
    /\ failedCommit # {}
    /\ startArtifacts # {}
    /\ \E p \in Projects : startPending[p]

\* C4 as stated: after a successful build cycle the manifest returned and
\* installed has an entry for every project committed in the cycle.
C4_ManifestHasCommittedProjects ==
    (mode \in BuildModes /\ result.kind = "Ok") =>
        /\ committed \subseteq result.artifacts
        /\ completed => committed \subseteq artifacts

C6_OnlyOverrideProject ==
    only_project \in Projects =>
        (built \cup checked \cup committed) \subseteq {only_project}

\* C6 witness: X has been built and committed while the other project is dirty.
C6_Witness ==
    /\ only_project = "P1"
    /\ pending["P2"]
    /\ "P1" \in built
    /\ "P1" \in committed

\* C7 as stated: with an override absent from the registry, the first cycle
\* (every cycle that starts) ends in the panic of the lookup.
C7_UnknownOverridePanics ==
    (only_project # None /\ ~ProjectExists(only_project) /\ cycles > 0) =>
        pc = "panicked"

\* C8: in both watch loops, whatever a cycle returned, the loop goes on to
\* wait for the next change batch and nothing is returned to the caller.
C8_CycleResultKeepsLoop ==
    [][(mode \in WatchModes /\ pc = "returned") => (pc' = "idle" /\ ret' = "none")]_vars

\* C8 witness: the eager first cycle failed and the loop waits for a batch.
C8_Witness ==
    /\ mode \in WatchModes
    /\ pc = "idle"
    /\ lastChange = "none"
    /\ result.kind = "BuildProjectsErrors"

\* C9 as stated: once next_change() has yielded None or Err the watch loop
\* has returned, an Err being the value returned.
C9_SubscriptionEndTerminates ==
    (mode \in WatchModes /\ lastChange \in {"None", "Err"}) =>
        /\ pc = "done"
        /\ lastChange = "Err" => ret = "SubscriptionError"

\* C10: a batch whose merge reports no new changes triggers no build_project,
\* check_project, commit_project, callback or complete_compilation, leaves
\* the flags as they were and puts the loop back to waiting.
C10_NoChangesNoCycle ==
    (/\ mode \in WatchModes
     /\ lastChange = "Some"
     /\ pc # "merge"
     /\ ret # "MergeError"
     /\ ~had_new_changes) =>
        /\ pc = "idle"
        /\ cycles = 0
        /\ built = {} /\ checked = {} /\ committed = {}
        /\ cb = <<>>
        /\ ~completed
        /\ pending = preMergePending

\* C10 witness: a batch naming both source-sets merged to no new changes.
C10_Witness ==
    /\ mode \in WatchModes
    /\ pc = "idle"
    /\ lastChange = "Some"
    /\ ~had_new_changes
    /\ DOMAIN file_source_changes = SourceSets

\* C11: in watch_with_callback the callback log of a window is: nothing, then
\* (for a cycle started by a merge with new changes) one Ok(()) appended by
\* the merge step, before the cycle begins, then the cycle's result once it
\* has been delivered. The first cycle has no Ok(()) before its result.
C11_CallbackSequence ==
    mode = "watch_with_callback" =>
        /\ cb = (IF had_new_changes THEN <<OkResult>> ELSE <<>>)
                \o (IF CycleReturned /\ pc # "returned" THEN <<result>> ELSE <<>>)
        /\ (lastChange = "none" /\ pc = "idle") => (Len(cb) = 1 /\ cb[1] = result)
        /\ (had_new_changes /\ pc = "idle" /\ lastChange = "Some") => Len(cb) = 2
        /\ (checked # {} /\ lastChange = "Some") => cb[1] = OkResult

\* C11 witness: a dirty cycle has delivered Ok(()) and then an aggregate error.
C11_Witness ==
    /\ mode = "watch_with_callback"
    /\ pc = "idle"
    /\ had_new_changes
    /\ Len(cb) = 2
    /\ cb[1] = OkResult
    /\ cb[2].kind = "BuildProjectsErrors"

\* C12 as stated: in watch_with_callback with no override, when P1's latest
\* check reported an error and a batch changes only P2's source-set b, the
\* cycle that follows checks P2 and no other project.
C12_OnlyChangedProjectChecked ==
    (/\ mode = "watch_with_callback"
     /\ only_project = None
     /\ DOMAIN file_source_changes = {"b"}
     /\ had_new_changes
     /\ "P1" \in staleErrors
     /\ pc = "analysis"
     /\ checked = {}) =>
        todo = {"P2"}

\* No build, check or commit task of a cycle is pending or running.
NoTaskRunning ==
    /\ todo = {}
    /\ \A p \in Projects : handles[p] \in {"none", "finished"}
    /\ errors_mutex = None

\* C13: a batch is consumed and merged only while no cycle is in progress,
\* the CompilerState changes only in the merge step and in the completion
\* step, complete_compilation runs only once the cycle has returned with no
\* task left, and a window holds at most one cycle.
C13_StateMutatedBetweenCycles ==
    [][/\ (file_source_changes' # file_source_changes \/ lastChange' # lastChange)
            => pc = "idle"
       /\ graphql_sources' # graphql_sources => pc = "merge"
       /\ (pending' # pending \/ artifacts' # artifacts)
            => (pc = "merge" \/ (pc = "returned" /\ NoTaskRunning))
       /\ (completed' /\ ~completed) => (pc = "returned" /\ NoTaskRunning)
       /\ cycles' <= 1]_vars

\* C13 witness: a cycle started by a batch has committed both projects and
\* completed.
C13_Witness ==
    /\ mode = "watch"
    /\ lastChange = "Some"
    /\ completed
    /\ committed = Projects

\* C14: every successful build cycle that committed all the projects returned
\* the same manifest, whatever the order of the builds and of the commits.
C14_ManifestOrderIndependent ==
    /\ Cardinality(manifestsSeen) <= 1
    /\ (mode \in BuildModes /\ result.kind = "Ok" /\ committed = Projects)
         => manifestsSeen = {result.artifacts}

\* C14 witness: a second successful cycle over both projects has returned,
\* with the builds in the order P2, P1.
C14_Witness ==
    /\ mode = "watch"
    /\ lastChange = "Some"
    /\ result.kind = "Ok"
    /\ results = <<"P2", "P1">>
    /\ manifestsSeen # {}

\* The projects passed to build_project or check_project in this window.
Evaluated == built \cup checked

\* The projects whose flag was set at the start of the cycle.
StartDirty == {p \in Projects : startPending[p]}

\* C15 as stated: with no override, a cycle that has returned has built (or
\* checked) exactly the projects whose flag was set at its start.
C15_WorkSetIsDirtySet ==
    (only_project = None /\ CycleReturned) => Evaluated = StartDirty

\* C15 amended: with no override, a cycle whose sources parse builds (or
\* checks) exactly the projects whose flag was set at its start; a cycle
\* whose sources do not parse returns before any project is built or checked.
C15_WorkSetIsDirtySetIfParsed ==
    only_project = None =>
        /\ Evaluated \subseteq StartDirty
        /\ (CycleReturned /\ result.kind # "ParseError") => Evaluated = StartDirty
        /\ result.kind = "ParseError" => Evaluated = {}
        /\ mode \in BuildModes => checked = {}
        /\ mode = "watch_with_callback" => built = {}

\* C15 witness: a watch cycle has built P2 alone, the only dirty project.
C15_Witness ==
    /\ mode = "watch"
    /\ only_project = None
    /\ CycleReturned
    /\ StartDirty = {"P2"}
    /\ built = {"P2"}

\* The override is absent or names a project of the registry.
ValidOverride == only_project = None \/ ProjectExists(only_project)

\* The projects that failed in this cycle, in the analysis or in the commit.
Failed == failedAnalysis \cup failedCommit

C17_CommitPhaseAggregation ==
    /\ \A p \in Projects : handles[p] = "locked" => errors_mutex = p
    /\ errors_mutex # None =>
         (handles[errors_mutex] = "locked" /\ errors_mutex \in failedCommit)
    /\ pc = "commit" =>
         /\ SeqToSet(errors) \subseteq failedCommit
         /\ \A p \in SeqToSet(errors) : handles[p] = "finished"
    /\ (mode \in BuildModes /\ CycleReturned /\ result.kind # "ParseError"
          /\ failedAnalysis = {}) =>
         /\ NoTaskRunning
         /\ committed = SeqToSet(results)
         /\ SeqToSet(result.errors) = failedCommit
         /\ Len(result.errors) = Cardinality(failedCommit)

\* C17 witness: P1's commit failed, P2's commit ran all the same, and the
\* result has been produced.
C17_Witness ==
    /\ pc = "returned"
    /\ committed = Projects
    /\ failedCommit = {"P1"}
    /\ result.errors = <<"P1">>

\* C18 as stated: with the override set to X, every cycle that has returned
\* built or checked X.
C18_OverrideAlwaysBuilt ==
    (only_project # None /\ ProjectExists(only_project) /\ CycleReturned) =>
        only_project \in Evaluated

\* C18 amended: with the override set to X, every cycle whose sources parse
\* builds or checks X (and X alone), whether X's flag is set or not.
C18_OverrideBuiltIfParsed ==
    (only_project # None /\ ProjectExists(only_project) /\ CycleReturned) =>
        IF result.kind = "ParseError"
        THEN Evaluated = {}
        ELSE Evaluated = {only_project}

\* C18 witness: X = P1 was built in a cycle at whose start only P2 was dirty.
C18_Witness ==
    /\ only_project = "P1"
    /\ CycleReturned
    /\ StartDirty = {"P2"}
    /\ built = {"P1"}

\* C19 as stated: the projects whose commit succeeded in a cycle where
\* another commit failed are built and committed again by the next cycle.
C19_RecommittedNextCycle ==
    (mode = "watch" /\ prevCommitted # {} /\ CycleReturned) =>
        /\ prevCommitted \subseteq built
        /\ prevCommitted \subseteq committed

\* C19 amended: after a cycle with a failed commit, the projects whose commit
\* succeeded keep their flag and the manifest is not updated; in watch they
\* are in the work set of the next cycle that runs, built again if its
\* sources parse and committed again if none of its analyses fails.
C19_RecommittedIfNextCycleGetsThere ==
    /\ (mode \in BuildModes /\ failedCommit # {} /\ CycleReturned) =>
         /\ ~completed
         /\ artifacts = startArtifacts
         /\ \A p \in committed \ failedCommit : startPending[p] /\ pending[p]
    /\ (mode = "watch" /\ prevCommitted # {}) =>
         /\ \A p \in prevCommitted : startPending[p]
         /\ (CycleReturned /\ result.kind # "ParseError") => prevCommitted \subseteq built
         /\ (CycleReturned /\ result.kind # "ParseError" /\ failedAnalysis = {})
              => prevCommitted \subseteq committed

\* C19 witness: P2, committed in a cycle where P1's commit failed, has been
\* committed again by the next cycle.
C19_Witness ==
    /\ mode = "watch"
    /\ prevCommitted = {"P2"}
    /\ CycleReturned
    /\ "P2" \in committed

\* C20: when merge_file_source_changes fails, the watch function has
\* returned that error; for that batch no project was built, checked or
\* committed, no callback was invoked and nothing was completed.
C20_MergeErrorEndsLoop ==
    ret = "MergeError" =>
        /\ mode \in WatchModes
        /\ pc = "done"
        /\ lastChange = "Some"
        /\ cycles = 0
        /\ Evaluated = {} /\ committed = {}
        /\ cb = <<>>
        /\ ~completed
        /\ result = NoResult

\* C20 witness: watch_with_callback has returned the error of a merge.
C20_Witness ==
    /\ mode = "watch_with_callback"
    /\ pc = "done"
    /\ ret = "MergeError"

====
